---- MODULE Spec2Model ----
(***************************************************************************)
(* Model of problem3/aws_inspector.py: the account inventory run of        *)
(* main(), its four resource collectors and the retry guard               *)
(* try_once_retry_once.  Every remote call is one step whose outcome is    *)
(* chosen by the environment: "ok", "net" (EndpointConnectionError,        *)
(* ConnectTimeoutError, ReadTimeoutError) or "client" (ClientError).       *)
(*                                                                         *)
(* A Python value that may be None is encoded as a sequence of length at   *)
(* most one: None is <<>> and the value v is <<v>>.                        *)
(***************************************************************************)
EXTENDS Integers, Sequences, FiniteSets, TLC

VARIABLES
    env,            \* the run's inputs: --region and the size of the remote account
    pc,             \* position of main()
    faults,         \* remote calls that have failed so far in this run
    exit_status,    \* None while running, else the process exit status
    err_printed,    \* error() has written a message to stderr
    region,         \* main: region
    identity,       \* main: (account_id, user_arn), None before the lookup
    iam_users,      \* main: iam_users, None before collect_iam_users returned
    ec2_instances,  \* main: ec2_instances
    s3_buckets,     \* main: s3_buckets
    sec_groups,     \* main: sec_groups
    payload,        \* main: payload, None until assembled
    written,        \* write_or_print has emitted the report
    guard,          \* the collector-level try_once_retry_once activation
    bguard,         \* the per-bucket try_once_retry_once activation of _bucket_stats
    loc,            \* locals of the running collector's _run closure
    calls,          \* remote calls issued so far by the running collector (history)
    degraded        \* collectors whose guard gave up after two network errors (history)

vars == <<env, pc, faults, exit_status, err_printed, region, identity, iam_users,
          ec2_instances, s3_buckets, sec_groups, payload, written, guard, bguard,
          loc, calls, degraded>>

----------------------------------------------------------------------------
(* Bounds of the model *)

MaxUsers == 2
MaxInst == 3
MaxBuckets == 2
MaxGroups == 2
MaxFaults == 2
PageSize == 1

----------------------------------------------------------------------------
(* Python values *)

None == <<>>
Some(v) == <<v>>
Val(o) == o[1]

\* x or y, for x an optional list: None and the empty list are falsy
OrEmptyList_NoDefault(x, out) == x
OrEmptyList(x, out) == IF x = None \/ x = Some(<<>>) THEN Some(out) ELSE x

\* x or y, for x an optional tuple: only None is falsy (a pair is never empty)
OrTuple(x, dflt) == IF x = None THEN dflt ELSE Val(x)

Outcomes == IF faults < MaxFaults THEN {"ok", "net", "client"} ELSE {"ok"}
Fault(o) == IF o = "ok" THEN 0 ELSE 1

RECURSIVE Pages(_, _)
\* what a paginator yields for a listing: at least one page, PageSize items a page
Pages(items, k) ==
    IF Len(items) <= k THEN <<items>>
    ELSE <<SubSeq(items, 1, k)>> \o Pages(SubSeq(items, k + 1, Len(items)), k)

RECURSIVE Flatten(_)
Flatten(ss) == IF ss = <<>> THEN <<>> ELSE Head(ss) \o Flatten(Tail(ss))

RECURSIVE SumSeq(_)
SumSeq(s) == IF s = <<>> THEN 0 ELSE Head(s) + SumSeq(Tail(s))

Range(s) == {s[i] : i \in 1..Len(s)}
Iota(n) == [i \in 1..n |-> i]

\* a datetime: wall-clock seconds and an optional UTC offset (None: naive)
DateTime(t, tz) == [t |-> t, tz |-> tz]

utc_iso(dt) ==
    IF dt = None THEN None
    ELSE IF Val(dt).tz = None THEN Some(Val(dt).t)
    ELSE Some(Val(dt).t - Val(Val(dt).tz))

----------------------------------------------------------------------------
(* The retry guard *)

\* what try_once_retry_once does when invocation number n of fn ends with o
try_once_retry_once_Thrice(n, o) ==
    IF o = "ok" THEN "return"
    ELSE IF o = "net" THEN (IF n <= 2 THEN "retry" ELSE "degrade")
    ELSE "raise"
try_once_retry_once(n, o) ==
    IF o = "ok" THEN "return"
    ELSE IF o = "net" THEN (IF n = 1 THEN "retry" ELSE "degrade")
    ELSE "raise"

\* the call counters at the start of the run and of every collector
NoCalls == [sts |-> <<>>, images |-> 0, image_ids |-> <<>>, images_after |-> 0,
            listing |-> [b \in 1..env.buckets |-> 0], failed |-> {}, gave_up |-> {}]

\* the counters c after the call named site (a call and the page, user or bucket it
\* is for) ended with o
Note(c, site, o) ==
    IF o = "ok" THEN c ELSE [c EXCEPT !.failed = @ \cup {<<site[1], site[2], o>>}]

NewGuard(on) == [on |-> on, calls |-> 1, log |-> <<>>, st |-> "running", ret |-> None]
NoGuard == [on |-> "", calls |-> 0, log |-> <<>>, st |-> "idle", ret |-> None]

GuardRetry(g, o) == [g EXCEPT !.calls = @ + 1, !.log = Append(@, o)]
GuardEnd(g, o, st, ret) == [g EXCEPT !.log = Append(@, o), !.st = st, !.ret = ret]

----------------------------------------------------------------------------
(* main: what is left unchanged, returning from a collector, dying *)

MainLocals == <<region, identity, iam_users, ec2_instances, s3_buckets, sec_groups>>
Output == <<payload, written>>

\* an exception nobody catches leaves main(): traceback, exit status 1
Uncaught ==
    /\ pc' = "crashed"
    /\ exit_status' = Some(1)
    /\ loc' = None
    /\ UNCHANGED <<err_printed, MainLocals, Output>>

\* the collector called at position p returns v to main
Return(p, v) ==
    /\ iam_users' = IF p = "iam" THEN v ELSE iam_users
    /\ ec2_instances' = IF p = "ec2" THEN v ELSE ec2_instances
    /\ s3_buckets' = IF p = "s3" THEN v ELSE s3_buckets
    /\ sec_groups' = IF p = "sg" THEN v ELSE sec_groups
    /\ pc' = CASE p = "iam" -> "ec2" [] p = "ec2" -> "s3" [] p = "s3" -> "sg"
               [] OTHER -> "assemble"
    /\ loc' = None
    /\ UNCHANGED <<region, identity, exit_status, err_printed, Output>>

\* the collector-level guard when invocation guard.calls of _run ends with o:
\* fresh are _run's locals at its start, first its first step, v its return value
Guarded(p, o, fresh, first, v) ==
    LET d == try_once_retry_once(guard.calls, o) IN
    CASE d = "return" ->
            /\ guard' = GuardEnd(guard, o, "returned", Some(v))
            /\ Return(p, OrEmptyList(Some(v), <<>>))
            /\ UNCHANGED degraded
      [] d = "retry" ->
            /\ guard' = GuardRetry(guard, o)
            /\ loc' = fresh
            /\ pc' = first
            /\ UNCHANGED <<exit_status, err_printed, MainLocals, Output, degraded>>
      [] d = "degrade" ->
            /\ guard' = GuardEnd(guard, o, "returned", None)
            /\ Return(p, OrEmptyList(None, <<>>))
            /\ degraded' = degraded \cup {p}
      [] OTHER ->
            /\ guard' = GuardEnd(guard, o, "raised", None)
            /\ Uncaught
            /\ UNCHANGED degraded

----------------------------------------------------------------------------
(* Region validation and the identity lookup *)

KnownRegions == {"us-east-1", "eu-west-1"}
RegionArgs == {None, Some("us-east-1"), Some("mars-1")}
SessionRegions == {None, Some("us-west-2")}

validate_region_or_exit ==
    /\ pc = "start"
    /\ \E sess \in SessionRegions :
        LET arg == env.region_arg IN
        IF arg # None /\ Val(arg) \notin KnownRegions
        THEN /\ err_printed' = TRUE
             /\ exit_status' = Some(2)
             /\ pc' = "exited"
             /\ UNCHANGED region
        ELSE /\ region' = IF arg # None THEN arg
                          ELSE IF sess # None THEN sess ELSE Some("unknown")
             /\ pc' = "identity"
             /\ UNCHANGED <<err_printed, exit_status>>
    /\ UNCHANGED <<env, faults, identity, iam_users, ec2_instances, s3_buckets,
                   sec_groups, Output, guard, bguard, loc, calls, degraded>>

\* what get_account_identity does with the outcome of get_caller_identity
identity_outcome_Swallow(o) == "return"
identity_outcome(o) ==
    CASE o = "ok" -> "return" [] o = "client" -> "exit" [] OTHER -> "raise"

get_account_identity ==
    /\ pc = "identity"
    /\ \E o \in Outcomes :
        /\ faults' = faults + Fault(o)
        /\ calls' = [calls EXCEPT !.sts = Append(@, o)]
        /\ CASE identity_outcome(o) = "return" ->
                  /\ identity' = Some([account_id |-> "123456789012",
                                       user_arn |-> "arn:aws:iam::123456789012:user/test"])
                  /\ pc' = "iam"
                  /\ UNCHANGED <<exit_status, err_printed>>
             [] identity_outcome(o) = "exit" ->
                  /\ err_printed' = TRUE
                  /\ exit_status' = Some(1)
                  /\ pc' = "exited"
                  /\ UNCHANGED identity
             [] OTHER ->
                  /\ exit_status' = Some(1)
                  /\ pc' = "crashed"
                  /\ UNCHANGED <<identity, err_printed>>
    /\ UNCHANGED <<env, region, iam_users, ec2_instances, s3_buckets, sec_groups,
                   Output, guard, bguard, loc, degraded>>

----------------------------------------------------------------------------
(* IAM users *)

\* the remote account's users, as list_users pages them
UserPages == Pages(Iota(env.users), PageSize)
RemoteUser(u) == [UserName |-> u, UserId |-> 100 + u, Arn |-> <<"user", u>>,
                  CreateDate |-> Some(DateTime(10 * u, Some(0)))]
\* get_user: PasswordLastUsed is absent for a user who never signed in
PasswordLastUsed(u) == IF u % 2 = 1 THEN Some(DateTime(10 * u + 5, None)) ELSE None
\* list_attached_user_policies, as paged: user 1 has two pages of one policy
PolicyPages(u) == IF u = 1 THEN << <<"ReadOnly">>, <<"Billing">> >> ELSE << <<>> >>
Policy(name) == [policy_name |-> name, policy_arn |-> <<"policy", name>>]

IamFresh_KeepResults ==
    Some([results |-> IF loc = None THEN <<>> ELSE Val(loc).results, p |-> 1, j |-> 1,
          last_activity |-> None, attached |-> <<>>, q |-> 1])

\* the locals of a new invocation of collect_iam_users._run: results = []
IamFresh == Some([results |-> <<>>, p |-> 1, j |-> 1, last_activity |-> None,
                  attached |-> <<>>, q |-> 1])

IamRecord(u, last_activity, attached) ==
    [username |-> RemoteUser(u).UserName,
     user_id |-> RemoteUser(u).UserId,
     arn |-> RemoteUser(u).Arn,
     create_date |-> utc_iso(RemoteUser(u).CreateDate),
     last_activity |-> last_activity,
     attached_policies |-> attached]

\* collect_iam_users up to the first invocation of _run
collect_iam_users ==
    /\ pc = "iam"
    /\ \E o \in Outcomes \ {"net"} :
        /\ faults' = faults + Fault(o)
        /\ IF o = "client"
           THEN /\ guard' = NoGuard
                /\ Return("iam", Some(<<>>))
                /\ UNCHANGED degraded
           ELSE /\ guard' = NewGuard("IAM users")
                /\ loc' = IamFresh
                /\ pc' = "iam_page"
                /\ UNCHANGED <<exit_status, err_printed, MainLocals, Output, degraded>>
        /\ calls' = Note(NoCalls, <<"get_paginator", 0>>, o)
    /\ UNCHANGED <<env, bguard>>

\* _run: the next page of paginator.paginate()
iam_page ==
    /\ pc = "iam_page"
    /\ \E o \in Outcomes :
        /\ faults' = faults + Fault(o)
        /\ IF o = "ok" /\ UserPages[Val(loc).p] # <<>>
           THEN /\ loc' = Some([Val(loc) EXCEPT !.j = 1])
                /\ pc' = "iam_get_user"
                /\ UNCHANGED <<guard, exit_status, err_printed, MainLocals, Output, degraded>>
           ELSE Guarded("iam", o, IamFresh, "iam_page", Val(loc).results)
        /\ calls' = Note(calls, <<"list_users", Val(loc).p>>, o)
    /\ UNCHANGED <<env, bguard>>

\* the user the loops of _run are at
IamUser == UserPages[Val(loc).p][Val(loc).j]

\* _run: get_user for the current user
get_user_result(o, u) == IF o = "ok" THEN utc_iso(PasswordLastUsed(u)) ELSE None

iam_get_user ==
    /\ pc = "iam_get_user"
    /\ \E o \in Outcomes :
        /\ faults' = faults + Fault(o)
        /\ IF o = "net"
           THEN Guarded("iam", o, IamFresh, "iam_page", <<>>)
           ELSE /\ loc' = Some([Val(loc) EXCEPT
                                  !.last_activity = get_user_result(o, IamUser),
                                  !.attached = <<>>, !.q = 1])
                /\ pc' = "iam_policies"
                /\ UNCHANGED <<guard, exit_status, err_printed, MainLocals, Output, degraded>>
        /\ calls' = Note(calls, <<"get_user", IamUser>>, o)
    /\ UNCHANGED <<env, bguard>>

\* _run: results.append(...) and the loops' next iteration
IamAppend(attached) ==
    LET l == Val(loc)
        results == Append(l.results, IamRecord(IamUser, l.last_activity, attached))
    IN  IF l.j < Len(UserPages[l.p])
        THEN /\ loc' = Some([l EXCEPT !.results = results, !.j = @ + 1])
             /\ pc' = "iam_get_user"
             /\ UNCHANGED <<guard, exit_status, err_printed, MainLocals, Output, degraded>>
        ELSE IF l.p < Len(UserPages)
        THEN /\ loc' = Some([l EXCEPT !.results = results, !.p = @ + 1])
             /\ pc' = "iam_page"
             /\ UNCHANGED <<guard, exit_status, err_printed, MainLocals, Output, degraded>>
        ELSE Guarded("iam", "ok", IamFresh, "iam_page", results)

\* _run: the next page of the current user's attached policies
iam_policies ==
    /\ pc = "iam_policies"
    /\ \E o \in Outcomes :
        /\ faults' = faults + Fault(o)
        /\ LET l == Val(loc)
               pages == PolicyPages(IamUser)
               attached == l.attached \o [i \in 1..Len(pages[l.q]) |-> Policy(pages[l.q][i])]
           IN  CASE o = "net" -> Guarded("iam", o, IamFresh, "iam_page", <<>>)
                 [] o = "client" -> IamAppend(l.attached)
                 [] OTHER ->
                       IF l.q < Len(pages)
                       THEN /\ loc' = Some([l EXCEPT !.attached = attached, !.q = @ + 1])
                            /\ UNCHANGED <<pc, guard, exit_status, err_printed,
                                           MainLocals, Output, degraded>>
                       ELSE IamAppend(attached)
        /\ calls' = Note(calls, <<"list_attached_user_policies", IamUser>>, o)
    /\ UNCHANGED <<env, bguard>>

----------------------------------------------------------------------------
(* EC2 instances *)

\* the remote account's instances: two share an image, one image is no longer
\* registered, the later instances carry no image id
RemoteInstance(i) ==
    [InstanceId |-> i,
     State |-> IF i % 2 = 1 THEN "running" ELSE "stopped",
     ImageId |-> IF i <= 2 THEN Some("ami-1") ELSE IF i = 3 THEN Some("ami-2") ELSE None,
     LaunchTime |-> Some(DateTime(50 + i, Some(0))),
     SecurityGroups |-> IF i = 1 THEN <<1>> ELSE <<>>,
     Tags |-> IF i = 1 THEN Some(<<"Name", "web">>) ELSE None]

\* describe_instances, as paged: reservations of up to two instances, PageSize
\* reservations a page
InstancePages ==
    IF env.instances = 0 THEN << <<>> >>
    ELSE Pages(Pages(Iota(env.instances), 2), PageSize)

\* the images describe_images knows, with their names
RegisteredImages == {"ami-1"}
ImageName(id) == Some(<<"name-of", id>>)

\* ami_ids.add(ami_id), the set kept in insertion order
SetAdd_Duplicating(s, x) == Append(s, x)
SetAdd(s, x) == IF x \in Range(s) THEN s ELSE Append(s, x)

InstanceRecord(i) ==
    LET inst == RemoteInstance(i) IN
    [instance_id |-> inst.InstanceId,
     state |-> inst.State,
     launch_time |-> utc_iso(inst.LaunchTime),
     ami_id |-> inst.ImageId,
     ami_name |-> None,
     security_groups |-> inst.SecurityGroups,
     tags |-> IF inst.Tags # None THEN inst.Tags ELSE <<>>]

Ec2Fresh == Some([results |-> <<>>, ami_ids |-> <<>>, p |-> 1])

RECURSIVE CollectAmiIds(_, _)
\* the ami_ids set after the instances insts were looped over
CollectAmiIds(ids, insts) ==
    IF insts = <<>> THEN ids
    ELSE CollectAmiIds(IF RemoteInstance(Head(insts)).ImageId # None
                       THEN SetAdd(ids, Val(RemoteInstance(Head(insts)).ImageId))
                       ELSE ids,
                       Tail(insts))

\* _ami_names: the names dict for the outcome o of describe_images(ImageIds=ids)
ami_names(ids, o) ==
    IF o = "ok" THEN [id \in Range(ids) \cap RegisteredImages |-> ImageName(id)]
    ELSE [id \in {} |-> None]

\* the loop over results that fills in ami_name
ResolveNames(results, names) ==
    [k \in 1..Len(results) |->
        IF results[k].ami_id # None /\ Val(results[k].ami_id) \in DOMAIN names
        THEN [results[k] EXCEPT !.ami_name = names[Val(results[k].ami_id)]]
        ELSE results[k]]

\* collect_ec2_instances up to the first invocation of _run
collect_ec2_instances ==
    /\ pc = "ec2"
    /\ guard' = NewGuard("EC2 instances")
    /\ loc' = Ec2Fresh
    /\ pc' = "ec2_page"
    /\ calls' = NoCalls
    /\ UNCHANGED <<env, faults, exit_status, err_printed, MainLocals, Output, bguard,
                   degraded>>

\* _run: the next page of describe_instances, its reservations flattened; after the
\* last page, _ami_names returns {} at once when no image id was seen
ec2_page ==
    /\ pc = "ec2_page"
    /\ \E o \in Outcomes :
        /\ faults' = faults + Fault(o)
        /\ LET l == Val(loc)
               insts == Flatten(InstancePages[l.p])
               results == l.results \o [k \in 1..Len(insts) |-> InstanceRecord(insts[k])]
               ami_ids == CollectAmiIds(l.ami_ids, insts)
           IN  IF o # "ok"
               THEN Guarded("ec2", o, Ec2Fresh, "ec2_page", <<>>)
               ELSE IF l.p < Len(InstancePages)
               THEN /\ loc' = Some([l EXCEPT !.results = results, !.ami_ids = ami_ids,
                                             !.p = @ + 1])
                    /\ UNCHANGED <<pc, guard, exit_status, err_printed, MainLocals, Output,
                                   degraded>>
               ELSE IF ami_ids = <<>>
               THEN Guarded("ec2", "ok", Ec2Fresh, "ec2_page",
                            ResolveNames(results, ami_names(ami_ids, "ok")))
               ELSE /\ loc' = Some([l EXCEPT !.results = results, !.ami_ids = ami_ids])
                    /\ pc' = "ec2_images"
                    /\ UNCHANGED <<guard, exit_status, err_printed, MainLocals, Output, degraded>>
        /\ calls' = Note(calls, <<"describe_instances", Val(loc).p>>, o)
    /\ UNCHANGED <<env, bguard>>

\* _run: the one describe_images call and the loop that fills in ami_name
ec2_images ==
    /\ pc = "ec2_images"
    /\ \E o \in Outcomes :
        /\ faults' = faults + Fault(o)
        /\ calls' = Note([calls EXCEPT !.images = @ + 1, !.image_ids = Val(loc).ami_ids,
                                        !.images_after = Len(Val(loc).results)],
                          <<"describe_images", 0>>, o)
        /\ IF o = "net"
           THEN Guarded("ec2", o, Ec2Fresh, "ec2_page", <<>>)
           ELSE Guarded("ec2", "ok", Ec2Fresh, "ec2_page",
                        ResolveNames(Val(loc).results, ami_names(Val(loc).ami_ids, o)))
    /\ UNCHANGED <<env, bguard>>

----------------------------------------------------------------------------
(* S3 buckets *)

RemoteBucket(b) == [Name |-> b, CreationDate |-> Some(DateTime(20 + b, Some(0)))]
\* list_objects_v2, as paged, the objects given by their sizes
ObjectPages(b) ==
    IF b = 1 THEN << <<100>>, <<400>> >>
    ELSE IF b = 2 THEN << <<7>> >>
    ELSE << <<>> >>
\* get_bucket_location: LocationConstraint is absent for the default region
LocationConstraint(b) == IF b % 2 = 1 THEN None ELSE Some("eu-west-1")

\* _bucket_region for the outcome o of get_bucket_location
bucket_region(b, o) ==
    IF o = "ok"
    THEN (IF LocationConstraint(b) # None THEN LocationConstraint(b) ELSE Some("us-east-1"))
    ELSE Some("unknown")

S3Fresh == Some([results |-> <<>>, buckets |-> <<>>, k |-> 1, count |-> 0, total |-> 0,
                 q |-> 1, stats |-> <<0, 0>>])

BucketRecord(b, bregion, stats) ==
    [bucket_name |-> RemoteBucket(b).Name,
     creation_date |-> utc_iso(RemoteBucket(b).CreationDate),
     region |-> bregion,
     object_count |-> stats[1],
     size_bytes |-> stats[2]]

bucket_stats_result_Partial(ret, count, total) ==
    IF ret = None THEN <<count, total>> ELSE Val(ret)

\* what _bucket_stats(name) returns: the guard's result, or (0,0) when the guard gave up;
\* count and total are the tallies the nonlocal variables hold at that moment
bucket_stats_result(ret, count, total) == OrTuple(ret, <<0, 0>>)

\* _bucket_stats(name) up to the first invocation of its _run: count, total = 0, 0
BucketStatsCall(l, k, c) ==
    /\ loc' = Some([l EXCEPT !.k = k, !.count = 0, !.total = 0, !.q = 1])
    /\ bguard' = NewGuard(<<"bucket", l.buckets[k]>>)
    /\ calls' = [c EXCEPT !.listing[l.buckets[k]] = @ + 1]
    /\ pc' = "s3_objects"
    /\ UNCHANGED <<guard, exit_status, err_printed, MainLocals, Output, degraded>>

\* collect_s3_buckets up to the first invocation of _run
collect_s3_buckets ==
    /\ pc = "s3"
    /\ guard' = NewGuard("S3 buckets")
    /\ loc' = S3Fresh
    /\ pc' = "s3_list"
    /\ calls' = NoCalls
    /\ UNCHANGED <<env, faults, exit_status, err_printed, MainLocals, Output, bguard,
                   degraded>>

\* _run: list_buckets, then _bucket_stats of the first bucket is entered
s3_list_buckets ==
    /\ pc = "s3_list"
    /\ \E o \in Outcomes :
        /\ faults' = faults + Fault(o)
        /\ IF o = "ok" /\ env.buckets > 0
           THEN BucketStatsCall([Val(loc) EXCEPT !.buckets = Iota(env.buckets)], 1, calls)
           ELSE /\ Guarded("s3", o, S3Fresh, "s3_list", <<>>)
                /\ calls' = Note(calls, <<"list_buckets", 0>>, o)
                /\ UNCHANGED bguard
    /\ UNCHANGED env

\* _bucket_stats._run: the next page of the bucket's objects, under the bucket's guard
s3_objects ==
    /\ pc = "s3_objects"
    /\ \E o \in Outcomes :
        /\ faults' = faults + Fault(o)
        /\ LET l == Val(loc)
               b == l.buckets[l.k]
               page == ObjectPages(b)[l.q]
               count == l.count + Len(page)
               total == l.total + SumSeq(page)
               d == try_once_retry_once(bguard.calls, o)
           IN  CASE o = "ok" /\ l.q < Len(ObjectPages(b)) ->
                       /\ loc' = Some([l EXCEPT !.count = count, !.total = total, !.q = @ + 1])
                       /\ UNCHANGED <<pc, guard, bguard, calls, exit_status, err_printed,
                                      MainLocals, Output, degraded>>
                 [] o = "ok" /\ l.q = Len(ObjectPages(b)) ->
                       /\ bguard' = GuardEnd(bguard, o, "returned", Some(<<count, total>>))
                       /\ loc' = Some([l EXCEPT !.count = count, !.total = total,
                                         !.stats = bucket_stats_result(
                                                      Some(<<count, total>>), count, total)])
                       /\ pc' = "s3_region"
                       /\ UNCHANGED <<guard, calls, exit_status, err_printed, MainLocals,
                                      Output, degraded>>
                 [] o # "ok" /\ d = "retry" ->
                       /\ bguard' = GuardRetry(bguard, o)
                       /\ loc' = Some([l EXCEPT !.q = 1])
                       /\ calls' = Note([calls EXCEPT !.listing[b] = @ + 1],
                                         <<"list_objects_v2", b>>, o)
                       /\ UNCHANGED <<pc, guard, exit_status, err_printed, MainLocals, Output,
                                   degraded>>
                 [] o # "ok" /\ d = "degrade" ->
                       /\ bguard' = GuardEnd(bguard, o, "returned", None)
                       /\ loc' = Some([l EXCEPT !.stats =
                                             bucket_stats_result(None, l.count, l.total)])
                       /\ pc' = "s3_region"
                       /\ calls' = [Note(calls, <<"list_objects_v2", b>>, o)
                                      EXCEPT !.gave_up = @ \cup {<<guard.calls, b>>}]
                       /\ UNCHANGED <<guard, exit_status, err_printed, MainLocals, Output,
                                      degraded>>
                 [] OTHER ->
                       /\ bguard' = GuardEnd(bguard, o, "raised", None)
                       /\ Guarded("s3", o, S3Fresh, "s3_list", <<>>)
                       /\ calls' = Note(calls, <<"list_objects_v2", b>>, o)
    /\ UNCHANGED env

\* _run: _bucket_region of the current bucket, results.append(...), the next bucket
s3_region ==
    /\ pc = "s3_region"
    /\ \E o \in Outcomes :
        /\ faults' = faults + Fault(o)
        /\ LET l == Val(loc)
               b == l.buckets[l.k]
               results == Append(l.results, BucketRecord(b, bucket_region(b, o), l.stats))
           IN  IF o = "net"
               THEN /\ Guarded("s3", o, S3Fresh, "s3_list", <<>>)
                    /\ calls' = Note(calls, <<"get_bucket_location", b>>, o)
                    /\ UNCHANGED bguard
               ELSE IF l.k < Len(l.buckets)
               THEN BucketStatsCall([l EXCEPT !.results = results], l.k + 1,
                                    Note(calls, <<"get_bucket_location", b>>, o))
               ELSE /\ Guarded("s3", "ok", S3Fresh, "s3_list", results)
                    /\ calls' = Note(calls, <<"get_bucket_location", b>>, o)
                    /\ UNCHANGED bguard
    /\ UNCHANGED env

----------------------------------------------------------------------------
(* Security groups *)

Perm(proto, from, to, cidrs) ==
    [IpProtocol |-> proto, FromPort |-> from, ToPort |-> to, IpRanges |-> cidrs]

RemoteGroup(g) ==
    [GroupId |-> g,
     IpPermissions |-> IF g % 2 = 1 THEN <<Perm("-1", None, None, <<Some("0.0.0.0/0")>>)>>
                       ELSE <<Perm("tcp", Some(80), Some(80), <<Some("10.0.0.0/8"), None>>)>>,
     IpPermissionsEgress |-> IF g % 2 = 1 THEN <<>>
                             ELSE <<Perm("tcp", Some(1000), Some(2000), <<>>)>>]

GroupPages == Pages(Iota(env.groups), PageSize)

\* _fmt: "all", "from-to" or the single port; the pieces of the string are kept
fmt(p) ==
    IF p.IpProtocol \in {"-1", "all"} THEN <<"all">>
    ELSE IF p.FromPort # p.ToPort THEN <<p.FromPort, "-", p.ToPort>>
    ELSE <<p.FromPort>>

Rule(p) ==
    [protocol |-> IF p.IpProtocol # "-1" THEN p.IpProtocol ELSE "all",
     port_range |-> fmt(p),
     cidrs |-> [i \in 1..Len(p.IpRanges) |->
                   IF p.IpRanges[i] # None THEN Val(p.IpRanges[i]) ELSE ""]]

GroupRecord(g) ==
    [group_id |-> RemoteGroup(g).GroupId,
     inbound_rules |-> [i \in 1..Len(RemoteGroup(g).IpPermissions) |->
                           Rule(RemoteGroup(g).IpPermissions[i])],
     outbound_rules |-> [i \in 1..Len(RemoteGroup(g).IpPermissionsEgress) |->
                            Rule(RemoteGroup(g).IpPermissionsEgress[i])]]

SgFresh == Some([results |-> <<>>, p |-> 1])

\* collect_security_groups up to the first invocation of _run
collect_security_groups ==
    /\ pc = "sg"
    /\ guard' = NewGuard("security groups")
    /\ loc' = SgFresh
    /\ pc' = "sg_page"
    /\ calls' = NoCalls
    /\ bguard' = NoGuard
    /\ UNCHANGED <<env, faults, exit_status, err_printed, MainLocals, Output, degraded>>

\* _run: the next page of describe_security_groups
sg_page ==
    /\ pc = "sg_page"
    /\ \E o \in Outcomes :
        /\ faults' = faults + Fault(o)
        /\ LET l == Val(loc)
               page == GroupPages[l.p]
               results == l.results \o [i \in 1..Len(page) |-> GroupRecord(page[i])]
           IN  IF o = "ok" /\ l.p < Len(GroupPages)
               THEN /\ loc' = Some([l EXCEPT !.results = results, !.p = @ + 1])
                    /\ UNCHANGED <<pc, guard, exit_status, err_printed, MainLocals, Output,
                                   degraded>>
               ELSE Guarded("sg", o, SgFresh, "sg_page", results)
        /\ calls' = Note(calls, <<"describe_security_groups", Val(loc).p>>, o)
    /\ UNCHANGED <<env, bguard>>

----------------------------------------------------------------------------
(* The report *)

CountRunning_All(insts) == Len(insts)

\* sum(1 for i in ec2_instances if i.get("state") == "running")
RECURSIVE CountRunning(_)
CountRunning(insts) ==
    IF insts = <<>> THEN 0
    ELSE (IF Head(insts).state = "running" THEN 1 ELSE 0) + CountRunning(Tail(insts))

ScanTime == Some(DateTime(1000, Some(0)))

Payload ==
    [account_info |-> [account_id |-> Val(identity).account_id,
                       user_arn |-> Val(identity).user_arn,
                       region |-> Val(region),
                       scan_timestamp |-> utc_iso(ScanTime)],
     resources |-> [iam_users |-> iam_users, ec2_instances |-> ec2_instances,
                    s3_buckets |-> s3_buckets, security_groups |-> sec_groups],
     summary |-> [total_users |-> Len(Val(iam_users)),
                  running_instances |-> CountRunning(Val(ec2_instances)),
                  total_buckets |-> Len(Val(s3_buckets)),
                  security_groups |-> Len(Val(sec_groups))]]

\* main: the payload is assembled and written, and main returns
assemble_and_write ==
    /\ pc = "assemble"
    /\ payload' = Some(Payload)
    /\ written' = TRUE
    /\ exit_status' = Some(0)
    /\ pc' = "done"
    /\ UNCHANGED <<env, faults, err_printed, MainLocals, guard, bguard, loc, calls,
                   degraded>>

----------------------------------------------------------------------------
(* The run *)

Init ==
    /\ env \in [region_arg : RegionArgs, users : 0..MaxUsers, instances : 0..MaxInst, buckets : 0..MaxBuckets,
                groups : 0..MaxGroups]
    /\ pc = "start"
    /\ faults = 0
    /\ exit_status = None
    /\ err_printed = FALSE
    /\ region = None
    /\ identity = None
    /\ iam_users = None
    /\ ec2_instances = None
    /\ s3_buckets = None
    /\ sec_groups = None
    /\ payload = None
    /\ written = FALSE
    /\ guard = NoGuard
    /\ bguard = NoGuard
    /\ loc = None
    /\ calls = NoCalls
    /\ degraded = {}

Next ==
    \/ validate_region_or_exit
    \/ get_account_identity
    \/ collect_iam_users
    \/ iam_page
    \/ iam_get_user
    \/ iam_policies
    \/ collect_ec2_instances
    \/ ec2_page
    \/ ec2_images
    \/ collect_s3_buckets
    \/ s3_list_buckets
    \/ s3_objects
    \/ s3_region
    \/ collect_security_groups
    \/ sg_page
    \/ assemble_and_write

Spec == Init /\ [][Next]_vars

----------------------------------------------------------------------------
(* Reference values: what the remote account holds, computed without paging *)

AllPolicies(u) ==
    [i \in 1..Len(Flatten(PolicyPages(u))) |-> Policy(Flatten(PolicyPages(u))[i])]
ExpectedUsers ==
    [u \in 1..env.users |-> IamRecord(u, utc_iso(PasswordLastUsed(u)), AllPolicies(u))]

ResolvableImage(i) ==
    /\ RemoteInstance(i).ImageId # None
    /\ Val(RemoteInstance(i).ImageId) \in RegisteredImages
ExpectedInstances ==
    [i \in 1..env.instances |->
        [InstanceRecord(i) EXCEPT
            !.ami_name = IF ResolvableImage(i)
                         THEN ImageName(Val(RemoteInstance(i).ImageId)) ELSE None]]
\* the distinct image ids of the account's instances
DistinctImageIds ==
    {Val(RemoteInstance(i).ImageId) :
        i \in {j \in 1..env.instances : RemoteInstance(j).ImageId # None}}

ExpectedStats(b) ==
    <<Len(Flatten(ObjectPages(b))), SumSeq(Flatten(ObjectPages(b)))>>
ExpectedBuckets ==
    [b \in 1..env.buckets |-> BucketRecord(b, bucket_region(b, "ok"), ExpectedStats(b))]

ExpectedGroups == [g \in 1..env.groups |-> GroupRecord(g)]

Collectors == {"iam", "ec2", "s3", "sg"}
\* main's variable for the list of collector c, and the list as the payload holds it
MainList(c) ==
    CASE c = "iam" -> iam_users [] c = "ec2" -> ec2_instances
      [] c = "s3" -> s3_buckets [] OTHER -> sec_groups
ReportList(c) ==
    CASE c = "iam" -> Val(payload).resources.iam_users
      [] c = "ec2" -> Val(payload).resources.ec2_instances
      [] c = "s3" -> Val(payload).resources.s3_buckets
      [] OTHER -> Val(payload).resources.security_groups
ExpectedList(c) ==
    CASE c = "iam" -> ExpectedUsers [] c = "ec2" -> ExpectedInstances
      [] c = "s3" -> ExpectedBuckets [] OTHER -> ExpectedGroups

Last(s) == s[Len(s)]
\* the guard of the collector named on has returned or raised, and main has not
\* entered the next collector yet
Finished(on) == guard.on = on /\ guard.st \in {"returned", "raised"}
\* some call of the running collector failed, and every call that failed was one of kinds
OnlyFailed(kinds) ==
    /\ calls.failed # {}
    /\ \A f \in calls.failed : f[1] \in kinds

----------------------------------------------------------------------------
(* Claims *)

GuardContract(g) ==
    /\ g.calls <= 2
    /\ g.st = "returned" =>
        /\ Len(g.log) = g.calls
        /\ (g.log[1] = "net" /\ Last(g.log) = "ok") => (g.calls = 2 /\ g.ret # None)
        /\ (\A i \in 1..Len(g.log) : g.log[i] = "net") => (g.calls = 2 /\ g.ret = None)

\* C1: an operation that fails transiently once and then succeeds is invoked exactly
\* twice and the guard returns its value (for the security-group listing: every
\* group of the account); one that fails transiently every time is invoked exactly
\* twice and the guard returns None; no operation is ever invoked a third time.
C1_RetryGuard ==
    /\ GuardContract(guard)
    /\ GuardContract(bguard)
    /\ (Finished("security groups") /\ guard.log = <<"net", "ok">>)
          => guard.ret = Some(ExpectedGroups)

C1_Witness ==
    /\ Finished("security groups")
    /\ guard.log = <<"net", "ok">>
    /\ guard.calls = 2
    /\ env.groups = 2

\* C2: a ClientError raised in a collector's listing never leaves the collector:
\* no guard ends by raising and main is never aborted once the identity is known.
C2_NonTransientErrorCaught ==
    /\ guard.st # "raised"
    /\ ~(pc = "crashed" /\ identity # None)

\* C3: a collector whose guard gave up hands main the empty list, never None; when
\* the two network errors of that collector are the run's only failures the run is
\* not aborted, and the report holds the empty list for it and, for each of the
\* other collectors, exactly the records of the account.
C3_DegradedCollectorIsEmptyList ==
    /\ \A c \in degraded : MainList(c) = Some(<<>>)
    /\ (pc = "done" /\ payload # None) => \A c \in degraded : ReportList(c) = Some(<<>>)
    /\ (degraded # {} /\ faults = 2) =>
        /\ pc \notin {"crashed", "exited"}
        /\ pc = "done" =>
            /\ payload # None
            /\ \A c \in Collectors \ degraded : ReportList(c) = Some(ExpectedList(c))

C3_Witness ==
    /\ pc = "done"
    /\ degraded = {"ec2"}
    /\ env.users = 2 /\ env.instances = 2 /\ env.buckets = 2 /\ env.groups = 2
    /\ Val(payload).resources.ec2_instances = Some(<<>>)
    /\ Val(payload).resources.s3_buckets = Some(ExpectedBuckets)

\* C4: an identity lookup that fails with a network error is attempted exactly once
\* more before the run dies, one that fails otherwise is attempted once; either way
\* the exit status is 1.
C4_IdentityRetriedOnce ==
    (identity = None /\ calls.sts # <<>> /\ pc \in {"exited", "crashed"}) =>
        /\ exit_status = Some(1)
        /\ calls.sts[1] = "net" => Len(calls.sts) = 2
        /\ calls.sts[1] = "client" => Len(calls.sts) = 1

NoCollectorRan ==
    /\ iam_users = None /\ ec2_instances = None /\ s3_buckets = None /\ sec_groups = None
    /\ guard = NoGuard /\ bguard = NoGuard /\ loc = None
NoReport == payload = None /\ ~written
InvalidRegionArg == env.region_arg # None /\ Val(env.region_arg) \notin KnownRegions

\* C5: an explicit region outside the known regions ends the run with status 2 before
\* the identity call; a failed identity call ends it with status 1 before any
\* collector; the report is written only after all four collectors returned, and
\* never in a run that ends with status 1 or 2.
C5_FatalOrder ==
    /\ (InvalidRegionArg /\ pc # "start") =>
          (pc = "exited" /\ exit_status = Some(2) /\ calls.sts = <<>> /\ identity = None
           /\ NoCollectorRan /\ NoReport)
    /\ exit_status = Some(2) => InvalidRegionArg
    /\ (calls.sts # <<>> /\ Last(calls.sts) # "ok") =>
          (pc \in {"exited", "crashed"} /\ exit_status = Some(1) /\ identity = None
           /\ NoCollectorRan /\ NoReport)
    /\ calls.sts # <<>> => region # None
    /\ ~NoCollectorRan => identity # None
    /\ (written \/ payload # None) =>
          (\A c \in Collectors : MainList(c) # None) /\ exit_status = Some(0)
    /\ exit_status \in {Some(1), Some(2)} => NoReport

C5_Witness ==
    /\ pc = "exited"
    /\ exit_status = Some(1)
    /\ calls.sts = <<"client">>
    /\ err_printed
    /\ env.users = 2

\* C6: when the only calls that failed in collect_iam_users are enrichment calls
\* (get_user, list_attached_user_policies), every listed user is in the result.
C6_EnrichmentFailureKeepsUsers ==
    (Finished("IAM users") /\ OnlyFailed({"get_user", "list_attached_user_policies"})) =>
        /\ guard.st = "returned"
        /\ iam_users # None
        /\ Len(Val(iam_users)) = env.users
        /\ \A k \in 1..env.users : Val(iam_users)[k].username = k

\* C7: when the only call that failed in collect_ec2_instances is describe_images,
\* every enumerated instance is in the result, and with ami_name null when the
\* listing was not run again.
C7_ImageFailureKeepsInstances ==
    (Finished("EC2 instances") /\ OnlyFailed({"describe_images"})) =>
        /\ guard.st = "returned"
        /\ ec2_instances # None
        /\ Len(Val(ec2_instances)) = env.instances
        /\ guard.calls = 1 =>
              \A k \in 1..env.instances : Val(ec2_instances)[k].ami_name = None

\* collect_ec2_instances returned and none of its calls failed
Ec2Clean == Finished("EC2 instances") /\ guard.log = <<"ok">> /\ calls.failed = {}

ImagesCallWellFormed ==
    /\ calls.images_after = env.instances
    /\ Range(calls.image_ids) = DistinctImageIds
    /\ Len(calls.image_ids) = Cardinality(DistinctImageIds)

\* C8 as stated: when no call fails, exactly one describe_images call is issued for
\* any set of instances, after the whole listing, with each distinct image id once,
\* and every instance with a resolved image receives the name.
C8_ExactlyOneImagesCall ==
    Ec2Clean =>
        /\ calls.images = 1
        /\ ImagesCallWellFormed
        /\ ec2_instances = Some(ExpectedInstances)

\* C8 as amended: when no call fails, describe_images is called once if some instance
\* carries an image id and not at all otherwise; the call comes after the whole
\* listing and carries each distinct image id once; every instance with a resolved
\* image receives the name; no run of _run calls describe_images twice.
C8_AtMostOneImagesCall ==
    /\ calls.images <= guard.calls
    /\ Ec2Clean =>
        /\ calls.images = IF DistinctImageIds = {} THEN 0 ELSE 1
        /\ calls.images = 1 => ImagesCallWellFormed
        /\ ec2_instances = Some(ExpectedInstances)

C8_Witness ==
    /\ Ec2Clean
    /\ env.instances = 2
    /\ calls.images = 1
    /\ calls.image_ids = <<"ami-1">>
    /\ Val(ec2_instances)[1].ami_name = ImageName("ami-1")
    /\ Val(ec2_instances)[2].ami_name = ImageName("ami-1")

\* C9: when the only calls that failed in collect_s3_buckets are region lookups,
\* every bucket is in the result, the bucket whose lookup failed with region
\* "unknown" when the listing was not run again.
C9_RegionFailureKeepsBuckets ==
    (Finished("S3 buckets") /\ OnlyFailed({"get_bucket_location"})) =>
        /\ guard.st = "returned"
        /\ s3_buckets # None
        /\ Len(Val(s3_buckets)) = env.buckets
        /\ guard.calls = 1 =>
              \A f \in calls.failed : Val(s3_buckets)[f[2]].region = Some("unknown")

\* C10: when the only calls that failed in collect_s3_buckets are object listings
\* of one bucket, every other bucket is in the result with the count and size of
\* its complete listing.
C10_SiblingBucketsUnaffected ==
    \A b \in 1..env.buckets :
        (/\ Finished("S3 buckets")
         /\ calls.failed # {}
         /\ \A f \in calls.failed : f[1] = "list_objects_v2" /\ f[2] = b) =>
            \A k \in 1..env.buckets \ {b} :
                  /\ s3_buckets # None
                  /\ Len(Val(s3_buckets)) = env.buckets
                  /\ Val(s3_buckets)[k].bucket_name = k
                  /\ Val(s3_buckets)[k].object_count = ExpectedStats(k)[1]
                  /\ Val(s3_buckets)[k].size_bytes = ExpectedStats(k)[2]

\* the record of bucket b in the list recs, when the list already has one
ReportedZero(recs, b) ==
    b <= Len(recs) => recs[b].object_count = 0 /\ recs[b].size_bytes = 0

\* C11: a bucket whose object listing ended with a network error on both attempts of
\* its guard gets the statistics (0, 0), whatever the two attempts had counted before
\* they failed, and is in the collector's list with object_count 0 and size_bytes 0.
C11_GivenUpListingIsZero ==
    /\ (pc = "s3_region" /\ bguard.st = "returned" /\ bguard.ret = None) =>
            /\ bguard.log = <<"net", "net">>
            /\ <<guard.calls, Val(loc).buckets[Val(loc).k]>> \in calls.gave_up
            /\ Val(loc).stats = <<0, 0>>
    /\ \A b \in 1..env.buckets :
            /\ (pc \in {"s3_objects", "s3_region"} /\ <<guard.calls, b>> \in calls.gave_up) =>
                    ReportedZero(Val(loc).results, b)
            /\ (Finished("S3 buckets") /\ guard.st = "returned" /\ guard.ret # None
                    /\ <<guard.calls, b>> \in calls.gave_up) =>
                    /\ s3_buckets = guard.ret
                    /\ ReportedZero(Val(s3_buckets), b)

\* both attempts of bucket 1's listing failed on its second page: the tallies hold
\* the first page twice and the bucket's statistics are (0, 0)
C11_Witness ==
    /\ pc = "s3_region"
    /\ bguard.log = <<"net", "net">>
    /\ Val(loc).buckets[Val(loc).k] = 1
    /\ Val(loc).count = 2
    /\ Val(loc).total = 200
    /\ Val(loc).stats = <<0, 0>>

\* the number of records of the list recs whose state is "running"
RunningIn(recs) == Cardinality({k \in 1..Len(recs) : recs[k].state = "running"})

\* C12: in every assembled report the resources are the four lists the collectors
\* returned to main and every summary counter is computed from the list beside it:
\* total_users and total_buckets and security_groups are the lengths of their lists
\* and running_instances is the number of instance records whose state is "running",
\* whichever collectors gave up.
C12_SummaryFromLists ==
    payload # None =>
        LET res == Val(payload).resources
            sum == Val(payload).summary
        IN  /\ res.iam_users = iam_users /\ res.ec2_instances = ec2_instances
            /\ res.s3_buckets = s3_buckets /\ res.security_groups = sec_groups
            /\ \A c \in Collectors : MainList(c) # None
            /\ sum.total_users = Len(Val(res.iam_users))
            /\ sum.running_instances = RunningIn(Val(res.ec2_instances))
            /\ sum.total_buckets = Len(Val(res.s3_buckets))
            /\ sum.security_groups = Len(Val(res.security_groups))

\* a report of a run in which the bucket collector gave up and three instances,
\* two of them running, were listed
C12_Witness ==
    /\ payload # None
    /\ degraded = {"s3"}
    /\ env.buckets = 2
    /\ Val(payload).summary.total_buckets = 0
    /\ Len(Val(ec2_instances)) = 3
    /\ Val(payload).summary.running_instances = 2
    /\ Val(payload).summary.total_users = 2
    /\ Val(payload).summary.security_groups = 2

\* the records of a listing whose pages are pages, by the identifier of each item
Concatenated(recs, ids, pages) ==
    /\ ids = Flatten(pages)
    /\ Len(recs) = SumSeq([p \in 1..Len(pages) |-> Len(pages[p])])

\* C13: the list a paginated collector returns holds one record per item of its
\* pages, in page order and in the order within each page, so that its length is
\* the sum of the page lengths; this holds for users, instances and security groups,
\* and also when the first attempt failed on a later page and the listing was run again.
C13_ListIsConcatenationOfPages ==
    /\ (Finished("IAM users") /\ guard.ret # None) =>
            /\ iam_users = guard.ret
            /\ Concatenated(Val(iam_users),
                            [k \in 1..Len(Val(iam_users)) |-> Val(iam_users)[k].username],
                            [p \in 1..Len(UserPages) |->
                                [j \in 1..Len(UserPages[p]) |->
                                    RemoteUser(UserPages[p][j]).UserName]])
    /\ (Finished("EC2 instances") /\ guard.ret # None) =>
            /\ ec2_instances = guard.ret
            /\ Concatenated(Val(ec2_instances),
                            [k \in 1..Len(Val(ec2_instances)) |->
                                Val(ec2_instances)[k].instance_id],
                            [p \in 1..Len(InstancePages) |->
                                [j \in 1..Len(Flatten(InstancePages[p])) |->
                                    RemoteInstance(Flatten(InstancePages[p])[j]).InstanceId]])
    /\ (Finished("security groups") /\ guard.ret # None) =>
            /\ sec_groups = guard.ret
            /\ Concatenated(Val(sec_groups),
                            [k \in 1..Len(Val(sec_groups)) |-> Val(sec_groups)[k].group_id],
                            [p \in 1..Len(GroupPages) |->
                                [j \in 1..Len(GroupPages[p]) |->
                                    RemoteGroup(GroupPages[p][j]).GroupId]])

\* the user listing failed on its second page, after the first page's user had been
\* recorded, was run again and returned both users
C13_Witness ==
    /\ Finished("IAM users")
    /\ guard.log = <<"net", "ok">>
    /\ calls.failed = {<<"list_users", 2, "net">>}
    /\ Len(UserPages) = 2
    /\ Len(Val(iam_users)) = 2

\* C14: whenever the guard of a bucket's object listing returns a value, on the first
\* attempt or on the retry after an attempt that failed part-way, the bucket's
\* object count and size are those of its complete listing, each object counted once.
C14_SuccessfulListingIsExact ==
    (pc = "s3_region" /\ bguard.st = "returned" /\ bguard.ret # None) =>
        /\ Val(loc).stats = Val(bguard.ret)
        /\ Val(loc).stats = ExpectedStats(Val(loc).buckets[Val(loc).k])

\* C15: within one run no guard invokes its operation more than twice, and the
\* object listing of any one bucket is started at most twice in all, although the
\* bucket's guard runs inside the guard of collect_s3_buckets.
C15_EnumerationStartedAtMostTwice ==
    /\ guard.calls <= 2
    /\ bguard.calls <= 2
    /\ \A b \in 1..env.buckets : calls.listing[b] <= 2

====
